---- MODULE Spec2Model ----
(***************************************************************************)
(* A model of nbs/c.py: the extraction of the public symbols of a module   *)
(* (get_public_symbols and its helpers) and the writing of the Markdown    *)
(* reference of a package (generate_filelist).                             *)
(*                                                                         *)
(* Representation.                                                         *)
(*  - A symbol name, which the code inspects with startswith/endswith, is  *)
(*    a sequence of one-character strings.                                 *)
(*  - Every other piece of text (a decorator's source, a parameter name, a *)
(*    module's dotted name, a literal of an f-string) is an atomic token,  *)
(*    and a text is the sequence of its tokens; the output file and the    *)
(*    standard output are such sequences.                                  *)
(*  - A docstring is the sequence of its lines; the empty string is <<>>.  *)
(*  - An attribute that may be None (doc_node, args.args) is a sequence of *)
(*    length 0 (None) or 1 (the value).                                    *)
(*  - A call that may raise yields [raised, value, exc].                   *)
(***************************************************************************)
EXTENDS Integers, Sequences, FiniteSets, TLC

VARIABLES
    pc,                   \* position in generate_filelist / get_public_symbols
    package,              \* the package named on the command line (input)
    include_no_docstring, \* the flag (input)
    file,                 \* content of the output file
    fstate,               \* "unopened", "open" or "closed"
    stdout,               \* what print() has written
    mi,                   \* position of the package walk (modules yielded so far)
    module,               \* the astroid module under processing
    si,                   \* position of the loop over module.items()
    symbols,              \* the records collected for the module
    wi,                   \* position of the loop over symbols when rendering
    error,                \* the exception that left the current frame, if any
    name_in,              \* argument of the is_public_symbol call under test
    public_out            \* its result: <<>> before the call, <<b>> after

vars == <<pc, package, include_no_docstring, file, fstate, stdout, mi, module,
          si, symbols, wi, error, name_in, public_out>>

----------------------------------------------------------------------------
(* Bounds *)

MaxNameLen == 4     \* longest generated name for the is_public_symbol calls
MaxSymbols == 2     \* most top-level bindings of a module passed to get_public_symbols
MaxMembers == 2     \* most bindings of a generated class body
MaxModules == 2     \* most modules the package walk yields

----------------------------------------------------------------------------
(* Generic helpers *)

RECURSIVE Join(_, _)
\* sep.join(parts), parts a sequence of texts
Join(sep, parts) ==
    IF parts = <<>> THEN <<>>
    ELSE IF Len(parts) = 1 THEN parts[1]
    ELSE parts[1] \o sep \o Join(sep, Tail(parts))

RECURSIVE Flatten(_)
Flatten(parts) ==
    IF parts = <<>> THEN <<>> ELSE parts[1] \o Flatten(Tail(parts))

\* str.startswith / str.endswith on character sequences
startswith(s, p) == Len(s) >= Len(p) /\ SubSeq(s, 1, Len(p)) = p

endswith(s, p) == Len(s) >= Len(p) /\ SubSeq(s, Len(s) - Len(p) + 1, Len(s)) = p

RECURSIVE lstrip(_)
\* a docstring is a sequence of lines; "" is a blank line
lstrip(doc) == IF doc # <<>> /\ doc[1] = "" THEN lstrip(Tail(doc)) ELSE doc

RECURSIVE rstrip(_)
rstrip(doc) ==
    IF doc # <<>> /\ doc[Len(doc)] = "" THEN rstrip(SubSeq(doc, 1, Len(doc) - 1)) ELSE doc

\* doc.strip().split('\n'): the lines that remain; ''.split('\n') is ['']
strip_lines(doc) == LET s == rstrip(lstrip(doc)) IN IF s = <<>> THEN <<"">> ELSE s

\* outcome of a call
Ok(v) == [raised |-> FALSE, value |-> v, exc |-> <<>>]

Raise(msg) == [raised |-> TRUE, value |-> <<>>, exc |-> msg]

NoError == [type |-> "none", msg |-> <<>>]

----------------------------------------------------------------------------
(* Visibility *)

is_public_symbol_no_dunder(name) == ~startswith(name, <<"_">>)

is_public_symbol(name) ==
    \/ ~startswith(name, <<"_">>)
    \/ (startswith(name, <<"_", "_">>) /\ endswith(name, <<"_", "_">>))

----------------------------------------------------------------------------
(* astroid nodes.  A node is [kind, doc_node, decorators, args, body]:       *)
(*   kind        "FunctionDef", "ClassDef" or "Other" (an assignment, an     *)
(*               import, ...);                                               *)
(*   doc_node    <<>> (None) or <<doc>>, doc the docstring's lines;          *)
(*   decorators  the decorators' source texts, top to bottom (<<>> when      *)
(*               node.decorators is None);                                   *)
(*   args        args.args: <<>> (None: astroid has no signature for the     *)
(*               function, as for one implemented in C) or <<names>>;        *)
(*   body        the items() of a class: a sequence of [name, obj].          *)

Function(doc_node, decorators, args) ==
    [kind |-> "FunctionDef", doc_node |-> doc_node, decorators |-> decorators,
     args |-> args, body |-> <<>>]

Class(doc_node, decorators, body) ==
    [kind |-> "ClassDef", doc_node |-> doc_node, decorators |-> decorators,
     args |-> <<>>, body |-> body]

Other == [kind |-> "Other", doc_node |-> <<>>, decorators |-> <<>>,
          args |-> <<>>, body |-> <<>>]

Binding(name, obj) == [name |-> name, obj |-> obj]

\* str(e) of the TypeError of iterating None
NoneTypeNotIterable == <<"'NoneType' object is not iterable">>

\* ', '.join(arg.name for arg in func.args.args)
get_params(func) ==
    IF func.args = <<>> THEN Raise(NoneTypeNotIterable)
    ELSE Ok(Join(<<", ">>, [i \in 1..Len(func.args[1]) |-> <<func.args[1][i]>>]))

get_decorators(obj) == obj.decorators

\* node.doc_node.value if node.doc_node else ""
doc_of(node) == IF node.doc_node # <<>> THEN node.doc_node[1] ELSE <<>>

process_function_ignoring_flag(func, name, flag) ==
    LET params == get_params(func)
        doc == doc_of(func)
    IN  IF params.raised THEN params
        ELSE IF doc # <<>>
             THEN Ok(<<[kind |-> "function", name |-> name,
                        signature |-> name \o <<"(">> \o params.value \o <<")">>,
                        doc |-> doc, decorators |-> get_decorators(func)]>>)
             ELSE Ok(<<>>)

\* value: <<>> for None, <<record>> for the tuple
process_function(func, name, flag) ==
    LET params == get_params(func)
        doc == doc_of(func)
    IN  IF params.raised THEN params
        ELSE IF flag \/ doc # <<>>
             THEN Ok(<<[kind |-> "function", name |-> name,
                        signature |-> name \o <<"(">> \o params.value \o <<")">>,
                        doc |-> doc, decorators |-> get_decorators(func)]>>)
             ELSE Ok(<<>>)

process_method(method, method_name) ==
    LET params == get_params(method)
    IN  IF params.raised THEN params
        ELSE Ok([name |-> method_name,
                 signature |-> method_name \o <<"(">> \o params.value \o <<")">>,
                 doc |-> doc_of(method), decorators |-> get_decorators(method)])

is_valid_method_any_name(method, method_name) == method.kind = "FunctionDef"

is_valid_method(method, method_name) ==
    method.kind = "FunctionDef" /\ is_public_symbol(method_name)

RECURSIVE process_methods(_)
\* the list comprehension of process_class: the first exception ends it
process_methods(items) ==
    IF items = <<>> THEN Ok(<<>>)
    ELSE IF ~is_valid_method(items[1].obj, items[1].name) THEN process_methods(Tail(items))
    ELSE LET m == process_method(items[1].obj, items[1].name)
         IN  IF m.raised THEN m
             ELSE LET rest == process_methods(Tail(items))
                  IN  IF rest.raised THEN rest ELSE Ok(<<m.value>> \o rest.value)

RECURSIVE documented_methods(_)
documented_methods(ms) ==
    IF ms = <<>> THEN <<>>
    ELSE (IF ms[1].doc # <<>> THEN <<ms[1]>> ELSE <<>>) \o documented_methods(Tail(ms))

process_class_filtering_methods(cls, name, flag) ==
    LET methods == process_methods(cls.body)
    IN  IF methods.raised THEN methods
        ELSE Ok([kind |-> "class", name |-> name, doc |-> doc_of(cls),
                 decorators |-> get_decorators(cls),
                 methods |-> IF flag THEN methods.value
                             ELSE documented_methods(methods.value)])

process_class(cls, name, flag) ==
    LET methods == process_methods(cls.body)
    IN  IF methods.raised THEN methods
        ELSE Ok([kind |-> "class", name |-> name, doc |-> doc_of(cls),
                 decorators |-> get_decorators(cls), methods |-> methods.value])

\* raise RuntimeError(f"Error processing symbol {name}: {str(error)}")
log_error(name, exc) == Raise(<<"Error processing symbol ">> \o name \o <<": ">> \o exc)

\* The body of the loop of get_public_symbols for one item: the records it
\* appends, or the exception that leaves the loop.
process_item(name, obj, flag) ==
    IF ~is_public_symbol(name) THEN Ok(<<>>)
    ELSE IF obj.kind = "FunctionDef"
         THEN LET r == process_function(obj, name, flag)
              IN  IF r.raised THEN log_error(name, r.exc) ELSE Ok(r.value)
    ELSE IF obj.kind = "ClassDef"
         THEN LET r == process_class(obj, name, flag)
              IN  IF r.raised THEN log_error(name, r.exc) ELSE Ok(<<r.value>>)
    ELSE Ok(<<>>)

RECURSIVE get_public_symbols(_, _)
\* the whole call: the list returned, or the exception raised
get_public_symbols(items, flag) ==
    IF items = <<>> THEN Ok(<<>>)
    ELSE LET r == process_item(items[1].name, items[1].obj, flag)
         IN  IF r.raised THEN r
             ELSE LET rest == get_public_symbols(Tail(items), flag)
                  IN  IF rest.raised THEN rest ELSE Ok(r.value \o rest.value)

----------------------------------------------------------------------------
(* Rendering (generate_filelist, lines 85-109) *)

\* the backquote character, which a TLA+ string cannot hold
BT == "BACKQUOTE"

\* ' '.join(f'@{d}' for d in decorators)
decorator_str(decorators) ==
    Join(<<" ">>, [i \in 1..Len(decorators) |-> <<"@", decorators[i]>>])

\* doc.strip(), as one text with its newlines
strip_text(doc) ==
    LET s == rstrip(lstrip(doc)) IN Join(<<"\n">>, [i \in 1..Len(s) |-> <<s[i]>>])

\* f.write(f"## {module_name}\n\n") and the blockquote of the module docstring
render_section_head(m) ==
    <<"## ", m.name, "\n\n">>
    \o (IF doc_of(m) # <<>>
        THEN LET ls == strip_lines(doc_of(m))
             IN  <<"> ">> \o Join(<<"\n> ">>, [i \in 1..Len(ls) |-> <<ls[i]>>]) \o <<"\n\n">>
        ELSE <<>>)

render_function(sym) ==
    <<"- ", BT>> \o decorator_str(sym.decorators) \o <<" ", "def", " ">> \o sym.signature
    \o <<BT, "\n">>
    \o (IF sym.doc # <<>> THEN <<"    ">> \o strip_text(sym.doc) \o <<"\n\n">> ELSE <<>>)

render_method(meth) ==
    <<"    - ", BT>> \o decorator_str(meth.decorators) \o <<" ", "def", " ">>
    \o meth.signature \o <<BT, "\n">>
    \o (IF meth.doc # <<>> THEN <<"        ">> \o strip_text(meth.doc) \o <<"\n\n">> ELSE <<>>)

render_class(sym) ==
    <<"- ", BT>> \o decorator_str(sym.decorators) \o <<" ", "class", " ">> \o sym.name
    \o <<BT, "\n">>
    \o (IF sym.doc # <<>> THEN <<"    ">> \o strip_text(sym.doc) \o <<"\n\n">> ELSE <<>>)
    \o Flatten([i \in 1..Len(sym.methods) |-> render_method(sym.methods[i])])

\* the body of the loop over symbols
render_symbol(sym) ==
    IF sym.kind = "function" THEN render_function(sym)
    ELSE IF sym.kind = "class" THEN render_class(sym)
    ELSE <<>>

\* f"# {package_name} Module Documentation\n\n"
package_header(package_name) == <<"# ", package_name, " Module Documentation\n\n">>

----------------------------------------------------------------------------
(* Inputs *)

DocText == <<"doc">>

\* members of generated class bodies, in source order
Members == <<
    Binding(<<"m">>, Function(<<DocText>>, <<"x">>, <<<<"self">>>>)),
    Binding(<<"_", "q">>, Function(<<DocText>>, <<>>, <<<<"self">>>>)),
    Binding(<<"n">>, Function(<<>>, <<>>, <<<<"self", "a">>>>)),
    Binding(<<"I">>, Class(<<DocText>>, <<>>,
                           <<Binding(<<"z">>, Function(<<DocText>>, <<>>, <<<<"self">>>>))>>)),
    Binding(<<"_", "_", "i", "_", "_">>, Function(<<>>, <<>>, <<<<"self">>>>)),
    Binding(<<"c">>, Other),
    Binding(<<"b">>, Function(<<>>, <<>>, <<>>)) >>

RECURSIVE SubSeqs(_)
\* the subsequences of a sequence (order kept)
SubSeqs(s) ==
    IF s = <<>> THEN {<<>>}
    ELSE LET rest == SubSeqs(Tail(s)) IN rest \cup { <<s[1]>> \o r : r \in rest }

SeqsUpTo(S, n) == UNION { [1..k -> S] : k \in 0..n }

RECURSIVE ItemsUpTo(_, _)
\* the sequences of at most n bindings of S with distinct names (items() is the
\* view of a dictionary: a name occurs once)
ItemsUpTo(S, n) ==
    IF n = 0 THEN {<<>>}
    ELSE LET shorter == ItemsUpTo(S, n - 1)
         IN  shorter \cup
             UNION { { Append(b, x) :
                         x \in { y \in S : \A i \in 1..Len(b) : b[i].name # y.name } } :
                     b \in { c \in shorter : Len(c) = n - 1 } }

ClassBodies == { b \in SubSeqs(Members) : Len(b) <= MaxMembers }

\* top-level bindings of the modules handed to get_public_symbols
SymBindings ==
    { Binding(<<"f">>, Function(<<DocText>>, <<"x", "y">>, <<<<"a", "b">>>>)),
      Binding(<<"g">>, Function(<<>>, <<>>, <<<<>>>>)),
      Binding(<<"e">>, Function(<< <<>> >>, <<"x">>, <<<<"a">>>>)),
      Binding(<<"_", "p">>, Function(<<DocText>>, <<>>, <<<<>>>>)),
      Binding(<<"_", "_", "d", "_", "_">>, Function(<<>>, <<>>, <<<<"a">>>>)),
      Binding(<<"_", "_", "Q">>, Class(<<DocText>>, <<>>, <<>>)),
      Binding(<<"v">>, Other),
      Binding(<<"h">>, Function(<<DocText>>, <<>>, <<>>)),
      Binding(<<"D">>, Class(<<DocText>>, <<"x", "y">>,
                             <<Binding(<<"m">>, Function(<<>>, <<>>, <<<<"self">>>>))>>)) }
    \cup { Binding(<<"K">>, Class(<<>>, <<>>, b)) : b \in ClassBodies }

Module(name, parseable, doc_node, body) ==
    [name |-> name, parseable |-> parseable, doc_node |-> doc_node, body |-> body]

NoModule == Module("", FALSE, <<>>, <<>>)

\* the modules handed to get_public_symbols with at most n top-level bindings
SymModules(n) == { Module("mod", TRUE, <<>>, b) : b \in ItemsUpTo(SymBindings, n) }

PkgF == Binding(<<"f">>, Function(<<DocText>>, <<"x", "y">>, <<<<"a", "b">>>>))

PkgG == Binding(<<"g">>, Function(<<>>, <<>>, <<<<>>>>))

PkgK == Binding(<<"K">>, Class(<<>>, <<>>,
            << Binding(<<"m">>, Function(<<DocText>>, <<"x">>, <<<<"self">>>>)),
               Binding(<<"_", "q">>, Function(<<DocText>>, <<>>, <<<<"self">>>>)),
               Binding(<<"n">>, Function(<<>>, <<>>, <<<<"self", "a">>>>)) >>))

\* a function astroid has no signature for: get_params raises on it
PkgH == Binding(<<"h">>, Function(<<DocText>>, <<>>, <<>>))

\* top-level bindings of the modules of the walked package, in source order
PkgBindings == <<PkgF, PkgG, PkgK>>

\* module bodies with a symbol whose processing raises
FailingBodies == { <<PkgF, PkgH>>, <<PkgH, PkgK>> }

ModuleDocs == { <<>>, << <<"", "about", "this module", "">> >> }

\* a module of the package before the walk names it
PkgModules ==
    { Module("", TRUE, d, b) : d \in ModuleDocs, b \in SubSeqs(PkgBindings) }
    \cup { Module("", TRUE, <<>>, b) : b \in FailingBodies }
    \cup { NoModule }

ModuleName(i) == "pkg.m" \o ToString(i)

Packages ==
    { [name |-> "pkg", importable |-> TRUE,
       modules |-> [i \in 1..Len(ms) |-> [ms[i] EXCEPT !.name = ModuleName(i)]]] :
         ms \in SeqsUpTo(PkgModules, MaxModules) }
    \cup { [name |-> "pkg", importable |-> FALSE, modules |-> <<>>] }

PreviousContents == { <<>>, <<"previous content\n">> }

Chars == {"_", "f", "o"}

Names ==
    SeqsUpTo(Chars, MaxNameLen)
    \cup { <<"f", "o", "o">>, <<"_", "f", "o", "o">>, <<"_", "_", "f", "o", "o">>,
           <<"_", "_", "i", "n", "i", "t", "_", "_">> }

----------------------------------------------------------------------------
(* generate_filelist *)

ModuleVars == <<module, si, symbols, wi>>

CallVars == <<name_in, public_out>>

Inputs == <<package, include_no_docstring>>

OpenFile_append ==
    /\ pc = "start"
    /\ fstate' = "open"
    /\ pc' = "opened"
    /\ UNCHANGED <<Inputs, file, stdout, mi, ModuleVars, error, CallVars>>

\* with open(output_file, 'w') as f: the file is truncated
OpenFile ==
    /\ pc = "start"
    /\ file' = <<>>
    /\ fstate' = "open"
    /\ pc' = "opened"
    /\ UNCHANGED <<Inputs, stdout, mi, ModuleVars, error, CallVars>>

WritePackageHeader ==
    /\ pc = "opened"
    /\ file' = file \o package_header(package.name)
    /\ pc' = "import"
    /\ UNCHANGED <<Inputs, fstate, stdout, mi, ModuleVars, error, CallVars>>

\* importlib.import_module(package_name); an ImportError is replaced by another
\* ImportError, which leaves the with block (the file is closed)
ImportPackage ==
    /\ pc = "import"
    /\ IF package.importable
       THEN /\ pc' = "walk"
            /\ UNCHANGED <<fstate, error>>
       ELSE /\ error' = [type |-> "ImportError",
                         msg |-> <<"Could not import package ", package.name,
                                   ". Is it installed?">>]
            /\ fstate' = "closed"
            /\ pc' = "failed"
    /\ UNCHANGED <<Inputs, file, stdout, mi, ModuleVars, CallVars>>

\* the walk yields the next module; print(f"Processing module: {module_name}")
NextModule ==
    /\ pc = "walk"
    /\ mi < Len(package.modules)
    /\ mi' = mi + 1
    /\ stdout' = stdout \o <<"Processing module: ", package.modules[mi + 1].name, "\n">>
    /\ pc' = "parse"
    /\ UNCHANGED <<Inputs, file, fstate, ModuleVars, error, CallVars>>

ParseModule_header_first ==
    /\ pc = "parse"
    /\ file' = file \o <<"## ", package.modules[mi].name, "\n\n">>
    /\ IF package.modules[mi].parseable
       THEN /\ module' = package.modules[mi]
            /\ symbols' = <<>>
            /\ si' = 1
            /\ pc' = "gps_loop"
            /\ UNCHANGED error
       ELSE /\ error' = [type |-> "AstroidBuildingError", msg |-> <<"<astroid error>">>]
            /\ pc' = "raised"
            /\ UNCHANGED <<module, symbols, si>>
    /\ UNCHANGED <<Inputs, fstate, stdout, mi, wi, CallVars>>

\* module = MANAGER.ast_from_module_name(module_name), then the entry of
\* get_public_symbols (symbols = [])
ParseModule ==
    /\ pc = "parse"
    /\ IF package.modules[mi].parseable
       THEN /\ module' = package.modules[mi]
            /\ symbols' = <<>>
            /\ si' = 1
            /\ pc' = "gps_loop"
            /\ UNCHANGED error
       ELSE /\ error' = [type |-> "AstroidBuildingError", msg |-> <<"<astroid error>">>]
            /\ pc' = "raised"
            /\ UNCHANGED <<module, symbols, si>>
    /\ UNCHANGED <<Inputs, file, fstate, stdout, mi, wi, CallVars>>

\* one iteration of `for name, obj in module.items()`
GPS_Iterate ==
    /\ pc = "gps_loop"
    /\ si <= Len(module.body)
    /\ LET r == process_item(module.body[si].name, module.body[si].obj,
                             include_no_docstring)
       IN  IF r.raised
           THEN /\ error' = [type |-> "RuntimeError", msg |-> r.exc]
                /\ pc' = "raised"
                /\ UNCHANGED <<symbols, si>>
           ELSE /\ symbols' = symbols \o r.value
                /\ si' = si + 1
                /\ UNCHANGED <<pc, error>>
    /\ UNCHANGED <<Inputs, file, fstate, stdout, mi, module, wi, CallVars>>

\* return symbols
GPS_Return ==
    /\ pc = "gps_loop"
    /\ si > Len(module.body)
    /\ pc' = "returned"
    /\ UNCHANGED <<Inputs, file, fstate, stdout, mi, ModuleVars, error, CallVars>>

CheckSymbols_always_section ==
    /\ pc = "returned"
    /\ pc' = "section"
    /\ UNCHANGED <<Inputs, file, fstate, stdout, mi, ModuleVars, error, CallVars>>

\* if symbols: ... else: print(f"No public symbols found in {module_name}")
CheckSymbols ==
    /\ pc = "returned"
    /\ IF symbols # <<>>
       THEN /\ pc' = "section"
            /\ UNCHANGED stdout
       ELSE /\ stdout' = stdout \o <<"No public symbols found in ", module.name, "\n">>
            /\ pc' = "walk"
    /\ UNCHANGED <<Inputs, file, fstate, mi, ModuleVars, error, CallVars>>

\* the "##" header and the module docstring; the loop over symbols follows and
\* ends at once on an empty list
WriteSection ==
    /\ pc = "section"
    /\ file' = file \o render_section_head(module)
    /\ wi' = 1
    /\ pc' = IF symbols = <<>> THEN "walk" ELSE "symbols"
    /\ UNCHANGED <<Inputs, fstate, stdout, mi, module, si, symbols, error, CallVars>>

\* one iteration of `for symbol in symbols`
WriteSymbol ==
    /\ pc = "symbols"
    /\ wi <= Len(symbols)
    /\ file' = file \o render_symbol(symbols[wi])
    /\ wi' = wi + 1
    /\ pc' = IF wi = Len(symbols) THEN "walk" ELSE "symbols"
    /\ UNCHANGED <<Inputs, fstate, stdout, mi, module, si, symbols, error, CallVars>>

ExceptModule_swallow ==
    /\ pc = "raised"
    /\ stdout' = stdout \o <<"Error processing ", package.modules[mi].name, ": ">>
                        \o error.msg \o <<"\n">>
    /\ error' = NoError
    /\ pc' = "walk"
    /\ UNCHANGED <<Inputs, file, fstate, mi, ModuleVars, CallVars>>

\* except Exception as e: raise RuntimeError(f"Error processing {module_name}: {str(e)}")
\* the exception leaves the with block (the file is closed) and the function
ExceptModule ==
    /\ pc = "raised"
    /\ error' = [type |-> "RuntimeError",
                 msg |-> <<"Error processing ", package.modules[mi].name, ": ">>
                         \o error.msg]
    /\ fstate' = "closed"
    /\ pc' = "failed"
    /\ UNCHANGED <<Inputs, file, stdout, mi, ModuleVars, CallVars>>

\* the walk is over: the with block closes the file;
\* print(f"Documentation generated in {output_file}")
Finish ==
    /\ pc = "walk"
    /\ mi = Len(package.modules)
    /\ fstate' = "closed"
    /\ stdout' = stdout \o <<"Documentation generated in ", "out.md", "\n">>
    /\ pc' = "done"
    /\ UNCHANGED <<Inputs, file, mi, ModuleVars, error, CallVars>>

Init ==
    /\ pc = "start"
    /\ package \in Packages
    /\ include_no_docstring \in BOOLEAN
    /\ file \in PreviousContents
    /\ fstate = "unopened"
    /\ stdout = <<>>
    /\ mi = 0
    /\ module = NoModule
    /\ si = 0
    /\ symbols = <<>>
    /\ wi = 0
    /\ error = NoError
    /\ name_in = <<>>
    /\ public_out = <<>>

Next ==
    \/ OpenFile
    \/ WritePackageHeader
    \/ ImportPackage
    \/ NextModule
    \/ ParseModule
    \/ GPS_Iterate
    \/ GPS_Return
    \/ CheckSymbols
    \/ WriteSection
    \/ WriteSymbol
    \/ ExceptModule
    \/ Finish

\* a run of generate_filelist
Spec == Init /\ [][Next]_vars

----------------------------------------------------------------------------
(* get_public_symbols alone, on any module *)

InitSym ==
    /\ pc = "gps_loop"
    /\ package = [name |-> "pkg", importable |-> TRUE, modules |-> <<>>]
    /\ include_no_docstring \in BOOLEAN
    /\ file = <<>>
    /\ fstate = "unopened"
    /\ stdout = <<>>
    /\ mi = 0
    /\ module \in SymModules(MaxSymbols)
    /\ si = 1
    /\ symbols = <<>>
    /\ wi = 0
    /\ error = NoError
    /\ name_in = <<>>
    /\ public_out = <<>>

NextSym == GPS_Iterate \/ GPS_Return

SpecSym == InitSym /\ [][NextSym]_vars

----------------------------------------------------------------------------
(* is_public_symbol alone, on any name *)

Call_is_public_symbol ==
    /\ pc = "call"
    /\ public_out' = <<is_public_symbol(name_in)>>
    /\ pc' = "called"
    /\ UNCHANGED <<Inputs, file, fstate, stdout, mi, ModuleVars, error, name_in>>

InitName ==
    /\ pc = "call"
    /\ package = [name |-> "pkg", importable |-> TRUE, modules |-> <<>>]
    /\ include_no_docstring = FALSE
    /\ file = <<>>
    /\ fstate = "unopened"
    /\ stdout = <<>>
    /\ mi = 0
    /\ module = NoModule
    /\ si = 0
    /\ symbols = <<>>
    /\ wi = 0
    /\ error = NoError
    /\ name_in \in Names
    /\ public_out = <<>>

NextName == Call_is_public_symbol

SpecName == InitName /\ [][NextName]_vars

----------------------------------------------------------------------------
(* Vocabulary of the properties *)

\* a name is public, read off its characters
PublicName(n) ==
    \/ Len(n) = 0
    \/ n[1] # "_"
    \/ (Len(n) >= 2 /\ n[1] = "_" /\ n[2] = "_" /\ n[Len(n) - 1] = "_" /\ n[Len(n)] = "_")

HasDocstring(node) == node.doc_node # <<>> /\ node.doc_node[1] # <<>>

\* positions in symbols of the records of a name
RecordsNamed(name) == { r \in 1..Len(symbols) : symbols[r].name = name }

PublicOfKind(b, kind) == b.obj.kind = kind /\ PublicName(b.name)

----------------------------------------------------------------------------
(* C1: is_public_symbol(n) is true exactly when n does not start with '_' or *)
(* n starts and ends with '__'; "foo" and "__init__" are public, "_foo" and  *)
(* "__foo" are not.                                                          *)
C1_PublicIffNotPrivateOrDunder ==
    public_out # <<>> =>
        /\ public_out[1] = PublicName(name_in)
        /\ name_in = <<"f", "o", "o">> => public_out[1]
        /\ name_in = <<"_", "_", "i", "n", "i", "t", "_", "_">> => public_out[1]
        /\ name_in = <<"_", "f", "o", "o">> => ~public_out[1]
        /\ name_in = <<"_", "_", "f", "o", "o">> => ~public_out[1]

C1_Witness ==
    /\ pc = "called"
    /\ name_in = <<"_", "_", "i", "n", "i", "t", "_", "_">>
    /\ public_out = <<TRUE>>

(* C2: when get_public_symbols returns, a public top-level function without  *)
(* a (non-empty) docstring has no record if include_no_docstring is false    *)
(* and exactly one 'function' record, with an empty docstring, if it is      *)
(* true; one with a docstring has exactly one record under either value.     *)
C2_FunctionInclusion ==
    pc = "returned" =>
        \A i \in 1..Len(module.body) :
            LET b == module.body[i]
                recs == RecordsNamed(b.name)
            IN  PublicOfKind(b, "FunctionDef") =>
                    IF ~include_no_docstring /\ ~HasDocstring(b.obj)
                    THEN recs = {}
                    ELSE /\ Cardinality(recs) = 1
                         /\ \A r \in recs :
                              /\ symbols[r].kind = "function"
                              /\ symbols[r].doc =
                                   (IF HasDocstring(b.obj) THEN b.obj.doc_node[1] ELSE <<>>)

C2_Witness ==
    /\ pc = "returned"
    /\ ~include_no_docstring
    /\ \E i, j \in 1..Len(module.body) :
         /\ PublicOfKind(module.body[i], "FunctionDef")
         /\ ~HasDocstring(module.body[i].obj)
         /\ RecordsNamed(module.body[i].name) = {}
         /\ PublicOfKind(module.body[j], "FunctionDef")
         /\ HasDocstring(module.body[j].obj)
         /\ RecordsNamed(module.body[j].name) # {}

(* C3: when get_public_symbols returns, every public top-level class has     *)
(* exactly one 'class' record, with or without a docstring and under both    *)
(* values of include_no_docstring, and the record is the one the other value *)
(* of the flag yields.                                                       *)
C3_ClassAlwaysIncluded ==
    pc = "returned" =>
        \A i \in 1..Len(module.body) :
            LET b == module.body[i]
                recs == RecordsNamed(b.name)
            IN  PublicOfKind(b, "ClassDef") =>
                    /\ Cardinality(recs) = 1
                    /\ \A r \in recs :
                         /\ symbols[r].kind = "class"
                         /\ symbols[r].doc =
                              (IF HasDocstring(b.obj) THEN b.obj.doc_node[1] ELSE <<>>)
                         /\ symbols[r].decorators = b.obj.decorators
                         /\ symbols[r] =
                              process_class(b.obj, b.name, ~include_no_docstring).value

C3_Witness ==
    /\ pc = "returned"
    /\ ~include_no_docstring
    /\ \E i \in 1..Len(module.body) :
         /\ PublicOfKind(module.body[i], "ClassDef")
         /\ ~HasDocstring(module.body[i].obj)
         /\ module.body[i].obj.body # <<>>
         /\ RecordsNamed(module.body[i].name) # {}

\* the class-body bindings that are functions with a public name
Qualifying(body) ==
    { j \in 1..Len(body) : body[j].obj.kind = "FunctionDef" /\ PublicName(body[j].name) }

(* C4: the methods of every class record are exactly the class-body bindings *)
(* that are functions and public, in class-body order, under either value of *)
(* the flag: the k-th method is the k-th such binding, with or without a     *)
(* docstring; private functions, non-functions and nested classes are absent.*)
C4_MethodsAreThePublicFunctions ==
    \A r \in 1..Len(symbols) :
        symbols[r].kind = "class" =>
            \A i \in 1..Len(module.body) :
                module.body[i].name = symbols[r].name =>
                    LET body == module.body[i].obj.body
                        ms == symbols[r].methods
                    IN  /\ Len(ms) = Cardinality(Qualifying(body))
                        /\ \A k \in 1..Len(ms) :
                             \E j \in Qualifying(body) :
                                /\ Cardinality({ q \in Qualifying(body) : q <= j }) = k
                                /\ ms[k].name = body[j].name
                                /\ ms[k].doc = doc_of(body[j].obj)
                                /\ ms[k].decorators = body[j].obj.decorators

C4_Witness ==
    /\ ~include_no_docstring
    /\ \E r \in 1..Len(symbols) :
         /\ symbols[r].kind = "class"
         /\ \E k \in 1..Len(symbols[r].methods) : symbols[r].methods[k].doc = <<>>
         /\ \E i \in 1..Len(module.body) :
              /\ module.body[i].name = symbols[r].name
              /\ Len(module.body[i].obj.body) > Len(symbols[r].methods)

(* C5: in get_public_symbols an exception raised while processing one symbol *)
(* is caught and logged and the loop goes on: the pass over the module is    *)
(* not aborted, and every public symbol that can be processed has its        *)
(* records when the pass ends.                                               *)
C5_SymbolErrorIsIsolated ==
    /\ pc # "raised"
    /\ pc = "returned" =>
         \A i \in 1..Len(module.body) :
            LET r == process_item(module.body[i].name, module.body[i].obj,
                                  include_no_docstring)
            IN  ~r.raised =>
                   \A k \in 1..Len(r.value) :
                      \E q \in 1..Len(symbols) :
                         /\ symbols[q].kind = r.value[k].kind
                         /\ symbols[q].name = r.value[k].name

----------------------------------------------------------------------------
(* Vocabulary of the properties of generate_filelist *)

Modules == package.modules

\* what get_public_symbols does on the k-th module of the walk
Extraction(k) == get_public_symbols(Modules[k].body, include_no_docstring)

\* processing the k-th module raises: astroid cannot build it, or a symbol raises
Fails(k) == ~Modules[k].parseable \/ Extraction(k).raised

\* the kept-record sequence of the k-th module
Kept(k) == Extraction(k).value

\* the k-th module has been processed to the end of its loop iteration
Processed(k) == k < mi \/ (k = mi /\ pc \in {"walk", "done"})

\* the number of "##" headers of the k-th module in the file
SectionCount(k) ==
    Cardinality({ i \in 1..(Len(file) - 1) : file[i] = "## " /\ file[i + 1] = Modules[k].name })

\* the number of progress lines of the k-th module on the standard output
ProgressCount(k) ==
    Cardinality({ i \in 1..(Len(stdout) - 1) :
                    stdout[i] = "Processing module: " /\ stdout[i + 1] = Modules[k].name })

\* the complete section of the k-th module
SectionOf(k) ==
    render_section_head(Modules[k])
    \o Flatten([i \in 1..Len(Kept(k)) |-> render_symbol(Kept(k)[i])])

\* the complete sections of the first n modules, those without a record
\* contributing nothing
SectionsUpTo(n) ==
    Flatten([k \in 1..n |-> IF Kept(k) = <<>> THEN <<>> ELSE SectionOf(k)])

(* C6: an exception while a module is processed, a symbol's error that left  *)
(* get_public_symbols included, is raised again wrapped with the module's    *)
(* name and ends the run: no module is visited after a module that fails,    *)
(* and when the run has failed the progress lines are those of the modules   *)
(* up to the failing one, the file is closed and holds no section of the     *)
(* failing module or of a later one, and no completion line is printed.      *)
C6_ModuleErrorAbortsRun ==
    /\ \A k \in 1..Len(Modules) : Processed(k) => ~Fails(k)
    /\ (pc = "failed" /\ package.importable) =>
         /\ Fails(mi)
         /\ error.type = "RuntimeError"
         /\ startswith(error.msg, <<"Error processing ", Modules[mi].name, ": ">>)
         /\ (~Modules[mi].parseable =>
               error.msg = <<"Error processing ", Modules[mi].name, ": ", "<astroid error>">>)
         /\ (Modules[mi].parseable =>
               error.msg = <<"Error processing ", Modules[mi].name, ": ">>
                           \o Extraction(mi).exc)
         /\ fstate = "closed"
         /\ \A k \in 1..Len(Modules) :
              /\ ProgressCount(k) = (IF k <= mi THEN 1 ELSE 0)
              /\ k >= mi => SectionCount(k) = 0
         /\ \A i \in 1..Len(stdout) : stdout[i] # "Documentation generated in "

C6_Witness ==
    /\ pc = "failed"
    /\ Len(Modules) = 2
    /\ mi = 1
    /\ Modules[1].parseable
    /\ ~Fails(2)
    /\ Kept(2) # <<>>
    /\ error.msg = <<"Error processing ", "pkg.m1", ": ", "Error processing symbol ", "h",
                     ": ", "'NoneType' object is not iterable">>

(* C7: a module that has been processed and whose kept-record sequence is    *)
(* empty has put nothing in the file (no "##" header, no blockquote) though  *)
(* its progress line was printed; every processed module with a kept record  *)
(* has exactly one "##" section; the sections stand in walk order (a header  *)
(* is preceded by as many headers as earlier modules have kept records), and *)
(* between two modules the file is the package header followed by the        *)
(* complete sections of the modules processed, in that order.                *)
C7_EmptyModulesLeaveNoSection ==
    /\ \A k \in 1..Len(Modules) :
         Processed(k) =>
            /\ ProgressCount(k) = 1
            /\ SectionCount(k) = (IF Kept(k) = <<>> THEN 0 ELSE 1)
    /\ pc \in {"walk", "done"} => file = package_header(package.name) \o SectionsUpTo(mi)
    /\ \A i \in 1..(Len(file) - 1) :
         file[i] = "## " =>
            \E k \in 1..mi :
               /\ file[i + 1] = Modules[k].name
               /\ Cardinality({ j \in 1..(i - 1) : file[j] = "## " })
                    = Cardinality({ l \in 1..(k - 1) : Kept(l) # <<>> })

C7_Witness ==
    /\ pc = "done"
    /\ Len(Modules) = 2
    /\ Modules[1].body # <<>>
    /\ Modules[1].doc_node # <<>>
    /\ Kept(1) = <<>>
    /\ Kept(2) # <<>>
    /\ SectionCount(1) = 0
    /\ SectionCount(2) = 1

\* an item starts at i: the backquote that follows "- "
ItemStart(i) == i > 1 /\ file[i] = BT /\ file[i - 1] \in {"- ", "    - "}

(* C8: wherever a function, class or method item is written, the decorators  *)
(* are the '@'-prefixed strings joined by spaces in declaration order, and   *)
(* an empty decorator sequence yields no prefix at all: the token after the  *)
(* opening backquote is either '@' (a decorator) or 'def'/'class' itself.    *)
C8_DecoratorPrefix ==
    \A i \in 1..(Len(file) - 1) :
        ItemStart(i) =>
            \/ file[i + 1] \in {"def", "class"}
            \/ /\ file[i + 1] = "@"
               /\ \E j \in (i + 1)..(Len(file) - 1) :
                    /\ file[j] = " "
                    /\ file[j + 1] \in {"def", "class"}
                    /\ \A q \in (i + 1)..(j - 1) :
                         file[q] = " " => (file[q - 1] # " " /\ file[q + 1] = "@")

(* C9: the records of a module are all extracted before anything of its      *)
(* section is written: while a module is parsed and its symbols extracted,   *)
(* and after the run failed on it, the file is the package header followed   *)
(* by the complete sections of the earlier modules; the section is written   *)
(* only once the loop over the module's items has ended.                     *)
C9_ExtractionBeforeSection ==
    /\ (mi >= 1 /\ pc \in {"parse", "gps_loop", "raised", "returned", "failed"}) =>
         file = package_header(package.name) \o SectionsUpTo(mi - 1)
    /\ pc \in {"section", "symbols"} =>
         /\ si = Len(module.body) + 1
         /\ symbols = Kept(mi)

C9_Witness ==
    /\ pc = "failed"
    /\ mi = 2
    /\ Kept(1) # <<>>
    /\ Modules[2].parseable
    /\ symbols # <<>>
    /\ file = package_header(package.name) \o SectionOf(1)

(* C10: the output file is opened, truncated, and the package header written *)
(* before the import of the package is attempted; when the package cannot be *)
(* imported the run fails with an ImportError that names the package, and    *)
(* the file is left closed holding exactly the header: its previous content  *)
(* is lost and it has no module section.                                     *)
C10_HeaderBeforeImport ==
    /\ pc = "import" => (fstate = "open" /\ file = package_header(package.name))
    /\ (pc = "failed" /\ ~package.importable) =>
         /\ error.type = "ImportError"
         /\ error.msg = <<"Could not import package ", package.name, ". Is it installed?">>
         /\ fstate = "closed"
         /\ file = <<"# ", package.name, " Module Documentation\n\n">>
         /\ \A i \in 1..Len(file) : file[i] # "## "

C10_Witness ==
    /\ pc = "failed"
    /\ ~package.importable
    /\ error.type = "ImportError"
    /\ file = package_header(package.name)

====
